---- MODULE Spec2Model ----
(***************************************************************************)
(* Order placement / stock reservation workflow of order_service.          *)
(*                                                                         *)
(* The model follows api/services.py (OrderService), api/repositories.py   *)
(* (ProductRepository, OrderRepository) and api/serializers.py             *)
(* (OrderSerializer).  The database is the PostgreSQL configuration of     *)
(* settings.py (IS_LOCAL = False): every request runs in one transaction   *)
(* (transaction.atomic) at READ COMMITTED, a statement sees the committed  *)
(* rows plus the transaction's own writes, and a row written by a          *)
(* transaction stays locked for other writers until that transaction ends. *)
(* A plain SELECT (Stock.objects.get) takes no lock.                       *)
(*                                                                         *)
(* Entities are identified by their keys: a user, a product and an order   *)
(* are their ids, so a foreign key holds the id of the row it references.  *)
(***************************************************************************)
EXTENDS Integers, Sequences, FiniteSets, TLC

\* ---------------------------------------------------------------- bounds
MaxCalls == 2          \* operations begun in one behaviour
MaxQty   == 2          \* largest quantity of a submitted line item
MaxItems == 2          \* most line items of a submitted order
InitQty  == 3          \* Stock.quantity of every product at the start

MaxDays  == 3          \* days the clock runs

Procs    == {"t1", "t2"}                \* concurrent request handlers
Products == {"P1", "P2"}
Users    == {"u1", "u2"}
Accounts == Users \cup {"u3"}          \* u3: a visitor who may register
Emails   == {"a", "b", "c"}

\* ------------------------------------------------ partial functions (rows)
EmptyFn == [x \in {} |-> 0]
Put(f, k, v) == [x \in DOMAIN f \cup {k} |-> IF x = k THEN v ELSE f[x]]
Drop(f, k) == [x \in DOMAIN f \ {k} |-> f[x]]
Overlay(f, g) == [x \in DOMAIN f \cup DOMAIN g |-> IF x \in DOMAIN g THEN g[x] ELSE f[x]]

\* ------------------------------------------------------------ request data
\* Product.price (models.py:83) of each product at the start, and the prices
\* a caller may put into purchase_price (or a product may be given later).
ProductPrice == [p \in Products |-> 2]
Prices == {1, 2}

\* OrderItemSerializer: product is a primary key of Product, quantity >= 1,
\* purchase_price is a field of the request.
PricedItem == [product : Products, quantity : 1..MaxQty, purchase_price : Prices]
PricedItemLists == UNION {[1..n -> PricedItem] : n \in 0..MaxItems}

\* The line items of a caller that sends each product's own price.
Item == {it \in PricedItem : it.purchase_price = ProductPrice[it.product]}
ItemLists == UNION {[1..n -> Item] : n \in 0..MaxItems}
\* What send_email_task.delay can do: enqueue, raise the task queue library's
\* own error, or raise another exception (the broker's transport error).
NotifyOutcomes == {"sent", "CeleryError", "OperationalError"}

VARIABLES
    stock,    \* committed Stock rows: product -> quantity (no entry: no row)
    stock2,   \* a second committed Stock row of a product: product -> quantity
    price,    \* Product.price of each product
    profiles, \* User with its UserProfile: user -> [email, email_verified,
              \*   verification_token, verification_sent_at, is_active]
    now,      \* the clock, in days
    uuid,     \* verification tokens issued so far (the last one's number)
    orders,   \* committed Order rows with their OrderItems: id -> [buyer, items]
    mail,     \* messages handed to the task queue: set of [kind, order, n]
    calls,    \* operations begun so far
    seq,      \* last value handed out by the Order id sequence
    tx        \* per request handler: position, inputs, locals, open transaction

vars == <<stock, stock2, price, profiles, now, uuid, orders, mail, calls, seq, tx>>

\* request.user of the session each handler serves.
UserOf(t) == IF t = "t1" THEN "u1" ELSE "u2"

Idle == [pc |-> "idle", op |-> "none", order |-> 0, buyer |-> "u1",
         given |-> FALSE, items |-> <<>>, old |-> <<>>, i |-> 0, cur |-> 0,
         wStock |-> EmptyFn, wOrders |-> EmptyFn,
         res |-> "none", notify |-> "none", n |-> 0,
         email |-> "a",
         pre |-> [stock |-> EmptyFn, orders |-> EmptyFn, profiles |-> EmptyFn]]

\* The accounts at the start: u1 has verified its address (verify_email sets
\* the token to None, written 0 here); u2 registered at time 0 and holds the
\* first verification token; u3 has not registered.
InitProfiles ==
    [u \in Users |->
        [email |-> IF u = "u1" THEN "a" ELSE "b",
         email_verified |-> (u = "u1"),
         verification_token |-> IF u = "u1" THEN 0 ELSE 1,
         verification_sent_at |-> 0,
         is_active |-> TRUE]]

\* The database at the start: every product has its Stock row, and one order
\* of user u1 was entered earlier (admin.py registers Order and OrderItem);
\* the stock is what is left after it.
InitOrders == {Put(EmptyFn, 1, [buyer |-> "u1",
                   items |-> <<[product |-> "P1", quantity |-> 1, purchase_price |-> 2],
                               [product |-> "P2", quantity |-> 1, purchase_price |-> 2]>>])}

Init ==
    /\ stock = [p \in Products |-> InitQty]
    /\ stock2 = EmptyFn
    /\ price = ProductPrice
    /\ profiles = InitProfiles
    /\ now = 0
    /\ uuid = 1
    /\ orders \in InitOrders
    /\ mail = {}
    /\ calls = 0
    /\ seq = Cardinality(DOMAIN orders)
    /\ tx = [p \in Procs |-> Idle]

\* ------------------------------------------------------- database helpers
\* Mutant of VisibleStock: a read that misses the transaction's own writes.
VisibleStock_Committed(t) == stock

\* Rows as transaction t sees them: committed rows plus its own writes.
VisibleStock(t) == Overlay(stock, tx[t].wStock)

\* Mutant of StockLockFree: writes take no row lock.
StockLockFree_NoLock(t, prod) == TRUE

\* A Stock row written by another open transaction is locked.
StockLockFree(t, prod) == \A q \in Procs \ {t} : prod \notin DOMAIN tx[q].wStock
OrderLockFree(t, oid) == \A q \in Procs \ {t} : oid \notin DOMAIN tx[q].wOrders

\* repositories.py:36  Stock.objects.get(product=product): the row, or
\* DoesNotExist when the product has no row, or MultipleObjectsReturned when
\* it has more than one (Stock.product is a ForeignKey, models.py:100).
get_stock_by_product(t, prod) ==
    IF prod \notin DOMAIN VisibleStock(t) THEN "DoesNotExist"
    ELSE IF prod \in DOMAIN stock2 THEN "MultipleObjectsReturned"
    ELSE "found"

\* What the services raise for a failed lookup: ObjectDoesNotExist is turned
\* into ValueError, MultipleObjectsReturned is caught nowhere.
LookupError(got) == IF got = "DoesNotExist" THEN "ValueError" ELSE got

Snapshot == [stock |-> stock, orders |-> orders, profiles |-> profiles]

\* transaction.atomic leaving with an exception: every write is dropped.
RolledBack(r, err) == [r EXCEPT !.pc = "done", !.res = err,
                                !.wStock = EmptyFn, !.wOrders = EmptyFn]
\* Mutant of Abort: no enclosing transaction (each save commits at once), so
\* the writes made before the error stay.
Abort_NoRollback(t, err, note) ==
    /\ tx' = [tx EXCEPT ![t] = [RolledBack(@, err) EXCEPT !.notify = note]]
    /\ stock' = Overlay(stock, tx[t].wStock)
    /\ orders' = Overlay(orders, tx[t].wOrders)

\* An exception leaves the service call: the transaction is rolled back and
\* the caller gets the error.  note: what the enqueue did, when it was reached.
Abort(t, err, note) ==
    /\ tx' = [tx EXCEPT ![t] = [RolledBack(@, err) EXCEPT !.notify = note]]
    /\ UNCHANGED <<stock, orders>>

\* transaction.atomic leaving normally: the writes become the committed rows.
Commit(t) ==
    /\ stock' = Overlay(stock, tx[t].wStock)
    /\ orders' = Overlay(orders, tx[t].wOrders)
    /\ tx' = [tx EXCEPT ![t] = [@ EXCEPT !.pc = "done", !.res = "ok",
                                         !.wStock = EmptyFn, !.wOrders = EmptyFn]]
    /\ UNCHANGED <<mail, calls, seq, stock2, price, profiles, now, uuid>>

\* ProductRepository.update_stock: stock.quantity -= quantity; stock.save()
update_stock(quantity, n) == quantity - n

\* Mutants of CreateInsufficient: the comparison off by one; no check at all.
CreateInsufficient_OffByOne(quantity, requested) == quantity <= requested
CreateInsufficient_Never(quantity, requested) == FALSE

\* services.py:39  if stock.quantity < item_data['quantity']: raise ValueError
CreateInsufficient(quantity, requested) == quantity < requested

\* ------------------------------------------------ OrderService.create_order
\* lines 32-34: pop the items, set the buyer, insert the Order header.
\* Line 33 stores user.id as the buyer; a user being its id here, the model
\* does not tell that integer from a User instance and the insert of line 34
\* (Order.objects.create) is taken to store the row.
CreateBegin(t, user, items) ==
    /\ tx[t].pc \in {"idle", "done"}
    /\ calls < MaxCalls
    /\ calls' = calls + 1
    /\ seq' = seq + 1
    /\ tx' = [tx EXCEPT ![t] =
          [Idle EXCEPT !.pc = IF items = <<>> THEN "c_items" ELSE "c_get",
                       !.op = "create", !.order = seq + 1, !.buyer = user,
                       !.n = calls + 1,
                       !.items = items, !.i = 1,
                       !.wOrders = Put(EmptyFn, seq + 1, [buyer |-> user, items |-> <<>>]),
                       !.pre = Snapshot]]
    /\ UNCHANGED <<stock, orders, mail, stock2, price, profiles, now, uuid>>

\* line 38: stock = get_stock_by_product(product); lines 48-50 when no row.
CreateGet(t) ==
    /\ tx[t].pc = "c_get"
    /\ LET prod == tx[t].items[tx[t].i].product
           got == get_stock_by_product(t, prod) IN
       IF got = "found"
       THEN /\ tx' = [tx EXCEPT ![t] =
                       [@ EXCEPT !.pc = "c_check", !.cur = VisibleStock(t)[prod]]]
            /\ UNCHANGED <<stock, orders>>
       ELSE Abort(t, LookupError(got), "none")
    /\ UNCHANGED <<mail, calls, seq, stock2, price, profiles, now, uuid>>

\* lines 39-47: the availability check on the fetched object, then update_stock.
CreateCheck(t) ==
    /\ tx[t].pc = "c_check"
    /\ LET it == tx[t].items[tx[t].i] IN
       IF CreateInsufficient(tx[t].cur, it.quantity)
       THEN Abort(t, "ValueError", "none")
       ELSE /\ StockLockFree(t, it.product)
            /\ tx' = [tx EXCEPT ![t] =
                 [@ EXCEPT !.wStock = Put(@, it.product, update_stock(tx[t].cur, it.quantity)),
                           !.i = @ + 1,
                           !.pc = IF tx[t].i = Len(tx[t].items) THEN "c_items" ELSE "c_get"]]
            /\ UNCHANGED <<stock, orders>>
    /\ UNCHANGED <<mail, calls, seq, stock2, price, profiles, now, uuid>>

\* line 55: OrderRepository.create_order_items (bulk_create).
CreateItems(t) ==
    /\ tx[t].pc = "c_items"
    /\ tx' = [tx EXCEPT ![t] =
         [@ EXCEPT !.pc = "c_notify",
                   !.wOrders = Put(@, tx[t].order,
                                   [buyer |-> tx[t].buyer, items |-> tx[t].items])]]
    /\ UNCHANGED <<stock, orders, mail, calls, seq, stock2, price, profiles, now, uuid>>

\* Mutant of CreateCatches: the handler of update_order (except CeleryError).
CreateCatches_CeleryOnly(exc) == exc = "CeleryError"

\* lines 67-69: except Exception -- every failure of the enqueue is swallowed.
CreateCatches(exc) == TRUE

\* lines 57-69: send_email_task.delay(...) inside the open transaction.
CreateNotify(t, outcome) ==
    /\ tx[t].pc = "c_notify"
    /\ mail' = IF outcome = "sent"
               THEN mail \cup {[kind |-> "created", order |-> tx[t].order, n |-> tx[t].n]}
               ELSE mail
    /\ IF outcome = "sent" \/ CreateCatches(outcome)
       THEN /\ tx' = [tx EXCEPT ![t] = [@ EXCEPT !.pc = "c_commit", !.notify = outcome]]
            /\ UNCHANGED <<stock, orders>>
       ELSE Abort(t, outcome, outcome)
    /\ UNCHANGED <<calls, seq, stock2, price, profiles, now, uuid>>

\* line 71 and the exit of transaction.atomic.
CreateCommit(t) ==
    /\ tx[t].pc = "c_commit"
    /\ Commit(t)

\* ------------------------------------------------ OrderService.update_order
\* Mutant of ItemsGiven: "if items_data is not None".
ItemsGiven_NotNone(given, items_data) == given

\* line 91: items_data = validated_data.pop('items', None); line 98: if
\* items_data: -- false for None (no 'items' in the request: given = FALSE)
\* and for the empty list.
ItemsGiven(given, items_data) == given /\ items_data # <<>>

\* The loop over the new line items (line 116) is skipped for an empty list.
NewLoopPc(items_data) == IF items_data = <<>> THEN "u_items" ELSE "u_get"

\* lines 120-123: the quantity of the first old item of that product, else 0.
OldQuantity(old, prod) ==
    LET ks == {k \in 1..Len(old) : old[k].product = prod} IN
    IF ks = {} THEN 0
    ELSE old[CHOOSE k \in ks : \A j \in ks : k <= j].quantity

\* line 124: delta = item_data['quantity'] - old_quantity
Delta(quantity, old_quantity) == quantity - old_quantity

\* line 125: if delta > 0 and stock.quantity < delta: raise ValueError
UpdateInsufficient(quantity, delta) == delta > 0 /\ quantity < delta

\* Mutant of Restocked: the old quantity is not added back.
Restocked_Nothing(quantity, old_quantity) == quantity

\* lines 107-108: stock.quantity += old_item.quantity; stock.save()
Restocked(quantity, old_quantity) == quantity + old_quantity

\* views.py:215-218: the order is looked up among the orders of request.user.
\* lines 91-101: header fields saved, old items captured and deleted.
UpdateBegin(t, oid, buyer, given, items) ==
    /\ tx[t].pc \in {"idle", "done"}
    /\ calls < MaxCalls
    /\ oid \in DOMAIN orders
    /\ orders[oid].buyer = UserOf(t)
    /\ OrderLockFree(t, oid)
    /\ calls' = calls + 1
    /\ LET old == orders[oid].items IN
       tx' = [tx EXCEPT ![t] =
          [Idle EXCEPT !.op = "update", !.order = oid, !.buyer = buyer,
                       !.n = calls + 1,
                       !.given = given,
                       !.items = items, !.i = 1, !.pre = Snapshot,
                       !.old = IF ItemsGiven(given, items) THEN old ELSE <<>>,
                       !.wOrders = Put(EmptyFn, oid,
                            [buyer |-> buyer,
                             items |-> IF ItemsGiven(given, items) THEN <<>> ELSE old]),
                       !.pc = IF ~ItemsGiven(given, items) THEN "u_notify"
                              ELSE IF old = <<>> THEN NewLoopPc(items) ELSE "u_rget"]]
    /\ UNCHANGED <<stock, orders, mail, seq, stock2, price, profiles, now, uuid>>

\* line 106 and lines 109-113: fetch the old item's Stock; a missing row is skipped.
UpdateRestockGet(t) ==
    /\ tx[t].pc = "u_rget"
    /\ LET prod == tx[t].old[tx[t].i].product
           got == get_stock_by_product(t, prod)
           last == tx[t].i = Len(tx[t].old) IN
       IF got = "MultipleObjectsReturned"
       THEN Abort(t, got, "none")
       ELSE /\ tx' = [tx EXCEPT ![t] =
                 IF got = "found"
                 THEN [@ EXCEPT !.pc = "u_rput", !.cur = VisibleStock(t)[prod]]
                 ELSE [@ EXCEPT !.i = IF last THEN 1 ELSE @ + 1,
                                !.pc = IF last THEN NewLoopPc(tx[t].items) ELSE "u_rget"]]
            /\ UNCHANGED <<stock, orders>>
    /\ UNCHANGED <<mail, calls, seq, stock2, price, profiles, now, uuid>>

\* lines 107-108: add the old quantity back and save.
UpdateRestockPut(t) ==
    /\ tx[t].pc = "u_rput"
    /\ LET it == tx[t].old[tx[t].i]
           last == tx[t].i = Len(tx[t].old) IN
       /\ StockLockFree(t, it.product)
       /\ tx' = [tx EXCEPT ![t] =
            [@ EXCEPT !.wStock = Put(@, it.product, Restocked(tx[t].cur, it.quantity)),
                      !.i = IF last THEN 1 ELSE @ + 1,
                      !.pc = IF last THEN NewLoopPc(tx[t].items) ELSE "u_rget"]]
    /\ UNCHANGED <<stock, orders, mail, calls, seq, stock2, price, profiles, now, uuid>>

\* line 118 and lines 133-139: fetch the new item's Stock; no row is an error.
UpdateGet(t) ==
    /\ tx[t].pc = "u_get"
    /\ LET prod == tx[t].items[tx[t].i].product
           got == get_stock_by_product(t, prod) IN
       IF got = "found"
       THEN /\ tx' = [tx EXCEPT ![t] =
                       [@ EXCEPT !.pc = "u_check", !.cur = VisibleStock(t)[prod]]]
            /\ UNCHANGED <<stock, orders>>
       ELSE Abort(t, LookupError(got), "none")
    /\ UNCHANGED <<mail, calls, seq, stock2, price, profiles, now, uuid>>

\* lines 120-132: delta against the old quantity, the check, update_stock(stock, delta).
UpdateCheck(t) ==
    /\ tx[t].pc = "u_check"
    /\ LET it == tx[t].items[tx[t].i]
           delta == Delta(it.quantity, OldQuantity(tx[t].old, it.product)) IN
       IF UpdateInsufficient(tx[t].cur, delta)
       THEN Abort(t, "ValueError", "none")
       ELSE /\ StockLockFree(t, it.product)
            /\ tx' = [tx EXCEPT ![t] =
                 [@ EXCEPT !.wStock = Put(@, it.product, update_stock(tx[t].cur, delta)),
                           !.i = @ + 1,
                           !.pc = IF tx[t].i = Len(tx[t].items) THEN "u_items" ELSE "u_get"]]
            /\ UNCHANGED <<stock, orders>>
    /\ UNCHANGED <<mail, calls, seq, stock2, price, profiles, now, uuid>>

\* line 142: OrderRepository.create_order_items(instance, items_data)
UpdateItems(t) ==
    /\ tx[t].pc = "u_items"
    /\ tx' = [tx EXCEPT ![t] =
         [@ EXCEPT !.pc = "u_notify",
                   !.wOrders = Put(@, tx[t].order,
                                   [buyer |-> tx[t].buyer, items |-> tx[t].items])]]
    /\ UNCHANGED <<stock, orders, mail, calls, seq, stock2, price, profiles, now, uuid>>

\* lines 153-155: except CeleryError -- only the task queue library's own error.
UpdateCatches(exc) == exc = "CeleryError"

\* lines 145-155: send_email_task.delay(...) inside the open transaction; an
\* exception that is not caught leaves transaction.atomic and rolls it back.
UpdateNotify(t, outcome) ==
    /\ tx[t].pc = "u_notify"
    /\ mail' = IF outcome = "sent"
               THEN mail \cup {[kind |-> "updated", order |-> tx[t].order, n |-> tx[t].n]}
               ELSE mail
    /\ IF outcome = "sent" \/ UpdateCatches(outcome)
       THEN /\ tx' = [tx EXCEPT ![t] = [@ EXCEPT !.pc = "u_commit", !.notify = outcome]]
            /\ UNCHANGED <<stock, orders>>
       ELSE Abort(t, outcome, outcome)
    /\ UNCHANGED <<calls, seq, stock2, price, profiles, now, uuid>>

\* line 157 and the exit of transaction.atomic.
UpdateCommit(t) ==
    /\ tx[t].pc = "u_commit"
    /\ Commit(t)

\* ----------------------------------------------- OrderService.reorder_order
\* Mutant of ReorderInsufficient: no pre-check of the quantity.
ReorderInsufficient_Never(quantity, requested) == FALSE

\* line 185: if stock.quantity < item.quantity: raise ValueError
ReorderInsufficient(quantity, requested) == quantity < requested

\* services.py:18  def create_order(validated_data, user)
CreateOrderParams == 2
\* serializers.py:254  return OrderService.create_order(validated_data)
SerializerCreateArgs == 1

\* A DecimalField value (price in hundredths) written by str(): the integer
\* part and the two decimal places.
DecimalStr(d) == <<d \div 100, d % 100>>

\* DecimalField(max_digits=10, decimal_places=2) of OrderItemSerializer
\* reading such a string back (serializer.is_valid, line 208).
ParseDecimal(str) == str[1] * 100 + str[2]

\* Mutant of ReorderPrice: the product's current price.
ReorderPrice_Current(purchase_price, current) == current

\* lines 193-197: 'purchase_price': str(item.purchase_price) in order_data,
\* validated by the serializer; the product's current price is not used.
ReorderPrice(purchase_price, current) == ParseDecimal(DecimalStr(purchase_price))

\* views.py:255 get_object() (the orders of request.user, items prefetched);
\* lines 175-178: order_data for the new order.
ReorderBegin(t, oid) ==
    /\ tx[t].pc \in {"idle", "done"}
    /\ calls < MaxCalls
    /\ oid \in DOMAIN orders
    /\ orders[oid].buyer = UserOf(t)
    /\ calls' = calls + 1
    /\ tx' = [tx EXCEPT ![t] =
          [Idle EXCEPT !.op = "reorder", !.order = oid, !.buyer = UserOf(t),
                       !.n = calls + 1,
                       !.old = orders[oid].items, !.i = 1, !.pre = Snapshot,
                       !.pc = IF orders[oid].items = <<>> THEN "r_save" ELSE "r_get"]]
    /\ UNCHANGED <<stock, orders, mail, seq, stock2, price, profiles, now, uuid>>

\* lines 181-204: the pre-check of one item of the original order.
ReorderGet(t) ==
    /\ tx[t].pc = "r_get"
    /\ LET it == tx[t].old[tx[t].i]
           got == get_stock_by_product(t, it.product) IN
       IF got # "found"
       THEN Abort(t, LookupError(got), "none")
       ELSE IF ReorderInsufficient(VisibleStock(t)[it.product], it.quantity)
       THEN Abort(t, "ValueError", "none")
       ELSE /\ tx' = [tx EXCEPT ![t] =
                 [@ EXCEPT !.items = Append(@,
                                [it EXCEPT !.purchase_price =
                                     ReorderPrice(@, price[it.product])]),
                           !.i = @ + 1,
                           !.cur = VisibleStock(t)[it.product],
                           !.pc = IF tx[t].i = Len(tx[t].old) THEN "r_save" ELSE "r_get"]]
            /\ UNCHANGED <<stock, orders>>
    /\ UNCHANGED <<mail, calls, seq, stock2, price, profiles, now, uuid>>

\* lines 207-210: serializer.save() -> OrderSerializer.create(validated_data)
\* -> OrderService.create_order(validated_data).  The call binds only when it
\* passes as many arguments as create_order has parameters; otherwise Python
\* raises TypeError, which leaves transaction.atomic.
ReorderSave(t) ==
    /\ tx[t].pc = "r_save"
    /\ IF SerializerCreateArgs = CreateOrderParams
       THEN /\ seq' = seq + 1
            /\ tx' = [tx EXCEPT ![t] =
                 [@ EXCEPT !.pc = IF tx[t].items = <<>> THEN "c_items" ELSE "c_get",
                           !.order = seq + 1, !.i = 1,
                           !.wOrders = Put(@, seq + 1,
                                [buyer |-> tx[t].buyer, items |-> <<>>])]]
            /\ UNCHANGED <<stock, orders>>
       ELSE /\ seq' = seq
            /\ Abort(t, "TypeError", "none")
    /\ UNCHANGED <<mail, calls, stock2, price, profiles, now, uuid>>

\* ------------------------------------------------------------- environment
\* A Stock row deleted out of band (admin.py:49-52, StockAdmin).  The DELETE
\* waits while an open transaction holds the row.
DeleteStock(prod) ==
    /\ calls < MaxCalls
    /\ prod \in DOMAIN stock
    /\ \A t \in Procs : prod \notin DOMAIN tx[t].wStock
    /\ calls' = calls + 1
    /\ IF prod \in DOMAIN stock2
       THEN /\ \E kept \in {stock[prod], stock2[prod]} : stock' = Put(stock, prod, kept)
            /\ stock2' = Drop(stock2, prod)
       ELSE /\ stock' = Drop(stock, prod)
            /\ stock2' = stock2
    /\ UNCHANGED <<orders, mail, seq, tx, price, profiles, now, uuid>>

\* The Stock row the next statement of t writes, if it is at a write.
WantsStock(t) ==
    IF tx[t].pc = "u_rput" THEN {tx[t].old[tx[t].i].product}
    ELSE IF tx[t].pc = "c_check"
            /\ ~CreateInsufficient(tx[t].cur, tx[t].items[tx[t].i].quantity)
    THEN {tx[t].items[tx[t].i].product}
    ELSE IF tx[t].pc = "u_check"
            /\ ~UpdateInsufficient(tx[t].cur,
                   Delta(tx[t].items[tx[t].i].quantity,
                         OldQuantity(tx[t].old, tx[t].items[tx[t].i].product)))
    THEN {tx[t].items[tx[t].i].product}
    ELSE {}

\* Two transactions each waiting for a row the other holds: the database
\* aborts one of them with a DatabaseError (create_order re-raises it,
\* lines 51-53; update_order lets it through).
DeadlockAbort(t) ==
    /\ \E q \in Procs \ {t} :
          /\ WantsStock(t) \cap DOMAIN tx[q].wStock # {}
          /\ WantsStock(q) \cap DOMAIN tx[t].wStock # {}
    /\ Abort(t, "DatabaseError", "none")
    /\ UNCHANGED <<mail, calls, seq, stock2, price, profiles, now, uuid>>

\* ----------------------------------------------------------- specifications
\* A request arrives: the service call begins.
CreateCall(t) == \E its \in ItemLists : CreateBegin(t, UserOf(t), its)
UpdateCall(t) ==
    \E oid \in DOMAIN orders, u \in Users, given \in BOOLEAN, its \in ItemLists :
        /\ given \/ its = <<>>
        /\ UpdateBegin(t, oid, u, given, its)
ReorderCall(t) == \E oid \in DOMAIN orders : ReorderBegin(t, oid)

\* A call that has begun takes its next step.
CreateRun(t) ==
    \/ CreateGet(t)
    \/ CreateCheck(t)
    \/ CreateItems(t)
    \/ \E o \in NotifyOutcomes : CreateNotify(t, o)
    \/ CreateCommit(t)

UpdateRun(t) ==
    \/ UpdateRestockGet(t)
    \/ UpdateRestockPut(t)
    \/ UpdateGet(t)
    \/ UpdateCheck(t)
    \/ UpdateItems(t)
    \/ \E o \in NotifyOutcomes : UpdateNotify(t, o)
    \/ UpdateCommit(t)

ReorderRun(t) ==
    \/ ReorderGet(t)
    \/ ReorderSave(t)

AtRest(t) == tx[t].pc \in {"idle", "done"}

\* Concurrent createOrder calls only.
CreateNext == \E t \in Procs : CreateCall(t) \/ CreateRun(t) \/ DeadlockAbort(t)

SpecCreate == Init /\ [][CreateNext]_vars

\* One request at a time: a call begins only while every handler is at rest.
SeqCall(t) ==
    /\ \A q \in Procs : AtRest(q)
    /\ (CreateCall(t) \/ UpdateCall(t) \/ ReorderCall(t))

SeqDelete(prod) ==
    /\ \A q \in Procs : AtRest(q)
    /\ DeleteStock(prod)

SeqNext ==
    \/ \E t \in Procs : SeqCall(t) \/ CreateRun(t) \/ UpdateRun(t) \/ ReorderRun(t)
    \/ \E prod \in Products : SeqDelete(prod)

SpecSeq == Init /\ [][SeqNext]_vars

\* StockAdmin's add form (admin.py:49-52) or StockSerializer.create
\* (serializers.py:156-167): Stock.objects.create(product, quantity), with
\* quantity >= 0 and no check for an existing row of the product.  A product
\* gets its first row, or a second one next to it.
AddStock(prod, quantity) ==
    /\ \A q \in Procs : AtRest(q)
    /\ calls < MaxCalls
    /\ prod \notin DOMAIN stock2
    /\ calls' = calls + 1
    /\ IF prod \in DOMAIN stock
       THEN stock2' = Put(stock2, prod, quantity) /\ stock' = stock
       ELSE stock' = Put(stock, prod, quantity) /\ stock2' = stock2
    /\ UNCHANGED <<orders, mail, seq, tx, price, profiles, now, uuid>>

\* Stock rows added and deleted out of band between calls, one call at a time.
AdminNext ==
    \/ \E t \in Procs : SeqCall(t) \/ CreateRun(t) \/ UpdateRun(t) \/ ReorderRun(t)
    \/ \E prod \in Products : SeqDelete(prod)
    \/ \E prod \in Products, quantity \in 0..MaxQty : AddStock(prod, quantity)

SpecAdmin == Init /\ [][AdminNext]_vars

\* ProductAdmin's change form (admin.py:41-45) or ProductSerializer.update
\* (serializers.py:134-147): the product's price is saved; handler t records
\* the operation.
ChangePrice(t, prod, p) ==
    /\ \A q \in Procs : AtRest(q)
    /\ calls < MaxCalls
    /\ p # price[prod]
    /\ calls' = calls + 1
    /\ price' = [price EXCEPT ![prod] = p]
    /\ tx' = [tx EXCEPT ![t] =
         [Idle EXCEPT !.pc = "done", !.op = "reprice", !.res = "ok",
                      !.n = calls + 1, !.pre = Snapshot]]
    /\ UNCHANGED <<stock, stock2, orders, mail, seq, profiles, now, uuid>>

\* Calls one at a time, with price changes between them.
RepriceNext ==
    \/ \E t \in Procs : SeqCall(t) \/ CreateRun(t) \/ UpdateRun(t) \/ ReorderRun(t)
    \/ \E t \in Procs, prod \in Products, p \in Prices : ChangePrice(t, prod, p)

SpecReprice == Init /\ [][RepriceNext]_vars

\* createOrder calls, one at a time, of callers that choose purchase_price.
PricedCall(t) ==
    /\ \A q \in Procs : AtRest(q)
    /\ \E its \in PricedItemLists : CreateBegin(t, UserOf(t), its)

PriceNext == \E t \in Procs : PricedCall(t) \/ CreateRun(t)

SpecPrice == Init /\ [][PriceNext]_vars

\* Every operation of the order service (create, update, reorder), any
\* interleaving, with stock rows deleted under them.
Next ==
    \/ \E t \in Procs : \/ CreateCall(t) \/ UpdateCall(t) \/ ReorderCall(t)
                        \/ CreateRun(t) \/ UpdateRun(t) \/ ReorderRun(t)
                        \/ DeadlockAbort(t)
    \/ \E prod \in Products : DeleteStock(prod)

Spec == Init /\ [][Next]_vars

\* ---------------------------------------------------------------- API layer
\* Classes that derive from BaseException among the objects the views raise.
\* rest_framework.response.Response (views.py:5) is not one of them.
ExceptionClasses ==
    {"ValueError", "DatabaseError", "TypeError", "CeleryError", "OperationalError"}

\* Python's raise statement: raising an object that does not derive from
\* BaseException raises TypeError instead.
Raise(cls) == IF cls \in ExceptionClasses THEN cls ELSE "TypeError"

\* views.py:220-235, OrderViewSet.perform_create: what leaves the method for
\* each outcome of OrderService.create_order.
\*   except ValueError:    raise Response({'error': ...}, status=400)
\*   except DatabaseError: raise Response({'error': ...}, status=500)
perform_create(res) ==
    IF res = "ok" THEN "ok"
    ELSE IF res \in {"ValueError", "DatabaseError"} THEN Raise("Response")
    ELSE res

\* The framework around the view: the created order is answered with 201, a
\* ValidationError (an APIException) with 400; any other exception is not
\* handled by the exception handler of the framework and becomes the server
\* error response.
CreateHttpStatus(outcome) ==
    IF outcome = "ok" THEN 201
    ELSE IF outcome = "ValidationError" THEN 400
    ELSE 500

\* ------------------------------------------- update_stock called on its own
\* Stock.quantity is a PositiveIntegerField (models.py:104): the database
\* backends attach the column constraint quantity >= 0 to it, and a save that
\* breaks it fails with IntegrityError.  The services never attempt such a
\* write, so only this direct use of update_stock meets the constraint.
StockCheckConstraint(quantity) == quantity >= 0

\* Arguments update_stock is called with: a quantity to take off (create_order)
\* or a delta of either sign (update_order, services.py:132).
StockDeltas == (0 - MaxQty)..MaxQty \ {0}

\* ProductRepository.update_stock(stock, n) applied to the committed Stock
\* row of prod, outside any service: lines 49-50, then the save's outcome.
ApplyDelta(t, prod, n) ==
    /\ \A q \in Procs : AtRest(q)
    /\ calls < MaxCalls
    /\ prod \in DOMAIN stock
    /\ calls' = calls + 1
    /\ LET new == update_stock(stock[prod], n)
           saved == StockCheckConstraint(new) IN
       /\ stock' = IF saved THEN Put(stock, prod, new) ELSE stock
       /\ tx' = [tx EXCEPT ![t] =
            [Idle EXCEPT !.pc = "done", !.op = "apply", !.n = calls + 1,
                         !.items = <<[product |-> prod, quantity |-> n,
                                      purchase_price |-> ProductPrice[prod]]>>,
                         !.cur = new, !.pre = Snapshot,
                         !.res = IF saved THEN "ok" ELSE "IntegrityError"]]
    /\ UNCHANGED <<orders, mail, seq, stock2, price, profiles, now, uuid>>

StockNext == \E t \in Procs, prod \in Products, n \in StockDeltas : ApplyDelta(t, prod, n)

SpecStock == Init /\ [][StockNext]_vars

\* ------------------------------------------------------- deleting an order
\* Mutant of StockAfterDestroy: every Stock row gets a unit back.
StockAfterDestroy_Restock(rows, items) == [p \in DOMAIN rows |-> rows[p] + 1]

\* Order and OrderItem have no delete override and no signal handler
\* (models.py:119-161): deleting an order writes no Stock row.
StockAfterDestroy(rows, items) == rows

\* views.py:211-218, OrderViewSet (ModelViewSet.destroy): get_object among the
\* orders of request.user, instance.delete(); the OrderItems go with the
\* order (on_delete=CASCADE, models.py:143-148).
DestroyOrder(t, oid) ==
    /\ \A q \in Procs : AtRest(q)
    /\ calls < MaxCalls
    /\ oid \in DOMAIN orders
    /\ orders[oid].buyer = UserOf(t)
    /\ calls' = calls + 1
    /\ orders' = Drop(orders, oid)
    /\ stock' = StockAfterDestroy(stock, orders[oid].items)
    /\ tx' = [tx EXCEPT ![t] =
         [Idle EXCEPT !.pc = "done", !.op = "destroy", !.res = "ok",
                      !.order = oid, !.buyer = UserOf(t),
                      !.old = orders[oid].items,
                      !.n = calls + 1, !.pre = Snapshot]]
    /\ UNCHANGED <<stock2, price, mail, seq, profiles, now, uuid>>

\* Calls one at a time, orders deleted between them.
DestroyNext ==
    \/ \E t \in Procs : SeqCall(t) \/ CreateRun(t) \/ UpdateRun(t) \/ ReorderRun(t)
    \/ \E t \in Procs : \E oid \in DOMAIN orders : DestroyOrder(t, oid)

SpecDestroy == Init /\ [][DestroyNext]_vars

\* ----------------------------------------------- accounts and verification
\* str(uuid.uuid4()): a token that was never issued before.
NewToken == uuid + 1

\* An account operation of handler t has ended: the record of the call.
AccountDone(t, op, user, email, token, res, note) ==
    [Idle EXCEPT !.pc = "done", !.op = op, !.buyer = user, !.email = email,
                 !.cur = token, !.res = res, !.notify = note,
                 !.n = calls + 1, !.pre = Snapshot]

\* services.py:219-254, UserProfileService.create_user_profile (register_user,
\* views.py:311-325): the User and its UserProfile with a new token, then the
\* verification mail.  The enqueue is not guarded: when it raises, the
\* exception leaves transaction.atomic and nothing is stored.
Register(t, user, email, outcome) ==
    /\ \A q \in Procs : AtRest(q)
    /\ calls < MaxCalls
    /\ user \notin DOMAIN profiles
    /\ \A u \in DOMAIN profiles : profiles[u].email # email
    /\ calls' = calls + 1
    /\ IF outcome = "sent"
       THEN /\ profiles' = Put(profiles, user,
                   [email |-> email, email_verified |-> FALSE,
                    verification_token |-> NewToken,
                    verification_sent_at |-> now, is_active |-> TRUE])
            /\ uuid' = NewToken
            /\ mail' = mail \cup {[kind |-> "verification", to |-> email, token |-> NewToken]}
       ELSE UNCHANGED <<profiles, uuid, mail>>
    /\ tx' = [tx EXCEPT ![t] =
         AccountDone(t, "register", user, email, NewToken,
                     IF outcome = "sent" THEN "ok" ELSE outcome, outcome)]
    /\ UNCHANGED <<stock, stock2, price, now, orders, seq>>

\* services.py:256-302, UserProfileService.update_user_profile with an email
\* in validated_data (username and the name fields as they are).
\*   268     user = instance.user
\*   273-276 if email != user.email: user.email = email; user.save()
\*   279     if email != instance.user.email:   -- instance.user is the object
\*           `user`, whose email line 275 has just set
\*   280-291 email_verified = False, new token, sent_at = now, enqueue
UpdateProfile(t, user, email, outcome) ==
    /\ \A q \in Procs : AtRest(q)
    /\ calls < MaxCalls
    /\ user \in DOMAIN profiles
    /\ \A u \in DOMAIN profiles \ {user} : profiles[u].email # email
    /\ calls' = calls + 1
    /\ LET differs == email # profiles[user].email
           saved == IF differs THEN [profiles[user] EXCEPT !.email = email]
                    ELSE profiles[user]
           reset == differs /\ email # saved.email
           failed == reset /\ outcome # "sent"
       IN
       /\ profiles' =
            IF failed THEN profiles
            ELSE IF reset
            THEN [profiles EXCEPT ![user] =
                     [saved EXCEPT !.email_verified = FALSE,
                                   !.verification_token = NewToken,
                                   !.verification_sent_at = now]]
            ELSE [profiles EXCEPT ![user] = saved]
       /\ uuid' = IF reset /\ ~failed THEN NewToken ELSE uuid
       /\ mail' = IF reset /\ ~failed
                  THEN mail \cup {[kind |-> "verification", to |-> email, token |-> NewToken]}
                  ELSE mail
       /\ tx' = [tx EXCEPT ![t] =
            AccountDone(t, "profile", user, email, NewToken,
                        IF failed THEN outcome ELSE "ok",
                        IF reset THEN outcome ELSE "none")]
    /\ UNCHANGED <<stock, stock2, price, now, orders, seq>>

\* Mutant of Verified: the token stays on the profile.
Verified_KeepsToken(profile) == [profile EXCEPT !.email_verified = TRUE]

\* views.py:374-376: email_verified = True, verification_token = None, save().
Verified(profile) == [profile EXCEPT !.email_verified = TRUE, !.verification_token = 0]

\* views.py:367-395, verify_email: the unverified profile that holds the
\* token becomes verified and loses the token; no such profile: 404.
VerifyEmail(t, token) ==
    /\ \A q \in Procs : AtRest(q)
    /\ calls < MaxCalls
    /\ calls' = calls + 1
    /\ LET found == {u \in DOMAIN profiles :
                        /\ profiles[u].verification_token = token
                        /\ ~profiles[u].email_verified} IN
       IF Cardinality(found) = 1
       THEN LET u == CHOOSE x \in found : TRUE IN
            /\ profiles' = [profiles EXCEPT ![u] = Verified(@)]
            /\ tx' = [tx EXCEPT ![t] = AccountDone(t, "verify", u, profiles[u].email, token, "ok", "none")]
       ELSE /\ profiles' = profiles
            /\ tx' = [tx EXCEPT ![t] =
                   AccountDone(t, "verify", UserOf(t), "a", token,
                               IF found = {} THEN "DoesNotExist" ELSE "MultipleObjectsReturned",
                               "none")]
    /\ UNCHANGED <<stock, stock2, price, now, uuid, orders, mail, seq>>

\* tasks.py:36-37: one_day_ago, two_days_ago.
OneDayAgo == now - 1
TwoDaysAgo == now - 2

\* tasks.py:39-43: unverified, sent at most one_day_ago and after two_days_ago.
OneDayUnverified ==
    {u \in DOMAIN profiles :
        /\ ~profiles[u].email_verified
        /\ profiles[u].verification_sent_at <= OneDayAgo
        /\ profiles[u].verification_sent_at > TwoDaysAgo}

\* tasks.py:56-59: unverified, sent at most two_days_ago.
TwoDaysUnverified ==
    {u \in DOMAIN profiles :
        /\ ~profiles[u].email_verified
        /\ profiles[u].verification_sent_at <= TwoDaysAgo}

\* tasks.py:30-66, check_email_verification: reminders to the one-day
\* profiles, then is_active = False for the two-day profiles.  reminded: the
\* profiles whose reminder was enqueued; when an enqueue raises, the except
\* of line 65 ends the run before the second loop.  The record of the call
\* keeps the time of the run in cur.
CheckEmailVerification(t, reminded) ==
    /\ \A q \in Procs : AtRest(q)
    /\ calls < MaxCalls
    /\ reminded \subseteq OneDayUnverified
    /\ calls' = calls + 1
    /\ mail' = mail \cup {[kind |-> "reminder", to |-> profiles[u].email,
                           token |-> profiles[u].verification_token] : u \in reminded}
    /\ LET raised == reminded # OneDayUnverified IN
       /\ profiles' = IF raised THEN profiles
                      ELSE [u \in DOMAIN profiles |->
                              IF u \in TwoDaysUnverified
                              THEN [profiles[u] EXCEPT !.is_active = FALSE]
                              ELSE profiles[u]]
       /\ tx' = [tx EXCEPT ![t] =
            AccountDone(t, "check", UserOf(t), "a", now, "ok",
                        IF raised THEN "raised" ELSE "none")]
    /\ UNCHANGED <<stock, stock2, price, now, uuid, orders, seq>>

\* A day passes.
Tick ==
    /\ now < MaxDays
    /\ now' = now + 1
    /\ UNCHANGED <<stock, stock2, price, profiles, uuid, orders, mail, calls, seq, tx>>

AccountNext ==
    \/ \E t \in Procs, u \in Accounts, e \in Emails, o \in NotifyOutcomes : Register(t, u, e, o)
    \/ \E t \in Procs, u \in Accounts, e \in Emails, o \in NotifyOutcomes : UpdateProfile(t, u, e, o)
    \/ \E t \in Procs, token \in 1..NewToken : VerifyEmail(t, token)
    \/ \E t \in Procs : \E reminded \in SUBSET DOMAIN profiles : CheckEmailVerification(t, reminded)
    \/ Tick

SpecAccount == Init /\ [][AccountNext]_vars

\* ------------------------------------------------------ properties: helpers
\* The call of handler t has ended and no operation has begun since: under
\* SpecSeq the committed rows are those right after the call, and tx[t].pre
\* holds those right before it.
Latest(t) == tx[t].pc = "done" /\ tx[t].n = calls

\* Total quantity of the lines of one product in a list of items.
RECURSIVE SumQty(_, _)
SumQty(items, prod) ==
    IF items = <<>> THEN 0
    ELSE (IF Head(items).product = prod THEN Head(items).quantity ELSE 0)
         + SumQty(Tail(items), prod)

\* Orders committed by createOrder calls (not those of the initial database).
CreatedOrders == DOMAIN orders \ UNION {DOMAIN o : o \in InitOrders}

RECURSIVE ReservedIn(_, _)
ReservedIn(oids, prod) ==
    IF oids = {} THEN 0
    ELSE LET o == CHOOSE x \in oids : TRUE IN
         SumQty(orders[o].items, prod) + ReservedIn(oids \ {o}, prod)

C2_DeltaCorrect ==
    \A t \in Procs :
        (/\ Latest(t) /\ tx[t].op = "update" /\ tx[t].res = "ok"
         /\ Len(tx[t].old) = 1 /\ Len(tx[t].items) = 1
         /\ tx[t].old[1].product = tx[t].items[1].product
         /\ tx[t].items[1].product \in DOMAIN tx[t].pre.stock)
        => LET P == tx[t].items[1].product IN
           stock[P] = tx[t].pre.stock[P] + tx[t].old[1].quantity - tx[t].items[1].quantity

\* C3 (atomicity of createOrder): a createOrder that failed with the stock
\* error on a line item leaves the committed rows as they were before the
\* call: no Order row of that call, no OrderItem, every stock as before.
\* Checked under SpecSeq.
C3_CreateAtomic ==
    \A t \in Procs :
        (Latest(t) /\ tx[t].op = "create" /\ tx[t].res = "ValueError")
        => /\ stock = tx[t].pre.stock
           /\ orders = tx[t].pre.orders
           /\ tx[t].order \notin DOMAIN orders

\* C3 witness: a two-line createOrder failed for lack of stock on its second
\* line, after the stock of the first line had been decremented.
C3_Witness ==
    \E t \in Procs :
        /\ Latest(t) /\ tx[t].op = "create" /\ tx[t].res = "ValueError"
        /\ tx[t].i = 2
        /\ tx[t].items[2].product \in DOMAIN stock
        /\ tx[t].items[1].product # tx[t].items[2].product
        /\ tx[t].cur < tx[t].items[2].quantity

\* C4 (reorder fidelity): a reorder of an order every product of which has
\* stock for the original quantity succeeds, commits a new order with the
\* original (product, quantity) pairs, and takes the original quantities off
\* the stock.  Checked under SpecSeq.
C4_ReorderFidelity ==
    \A t \in Procs :
        (/\ Latest(t) /\ tx[t].op = "reorder"
         /\ \A k \in 1..Len(tx[t].old) :
               /\ tx[t].old[k].product \in DOMAIN tx[t].pre.stock
               /\ tx[t].pre.stock[tx[t].old[k].product] >= SumQty(tx[t].old, tx[t].old[k].product))
        => /\ tx[t].res = "ok"
           /\ \E new \in DOMAIN orders \ DOMAIN tx[t].pre.orders :
                 orders[new].items = tx[t].old
           /\ \A prod \in DOMAIN tx[t].pre.stock :
                 /\ prod \in DOMAIN stock
                 /\ stock[prod] = tx[t].pre.stock[prod] - SumQty(tx[t].old, prod)

C6_StockNonNegative ==
    /\ \A prod \in DOMAIN stock : stock[prod] >= 0
    /\ \A t \in Procs : \A prod \in DOMAIN tx[t].wStock : tx[t].wStock[prod] >= 0

\* C6 witness: two calls are in progress at once and one of them has written
\* a stock of exactly 0.
C6_Witness ==
    \E t \in Procs : \E q \in Procs \ {t} :
        /\ ~AtRest(t) /\ ~AtRest(q)
        /\ \E prod \in DOMAIN tx[t].wStock : tx[t].wStock[prod] = 0

\* C7 (repeated edits do not double-charge): a successful updateOrder whose
\* line items are the ones the order already holds leaves every stock
\* unchanged.  Checked under SpecSeq.
C7_UpdateIdempotent ==
    \A t \in Procs :
        (/\ Latest(t) /\ tx[t].op = "update" /\ tx[t].res = "ok"
         /\ ItemsGiven(tx[t].given, tx[t].items)
         /\ tx[t].items = tx[t].pre.orders[tx[t].order].items)
        => stock = tx[t].pre.stock

\* C8 (restock-not-found tolerance): an updateOrder with new line items, on
\* an order one of whose items references a product without Stock row,
\* completes whenever every new line's product has a Stock row holding the
\* quantities asked of it; the missing row stays missing and the old products
\* that are not in the new lines get their quantity back.  Checked under SpecSeq.
C8_RestockTolerant ==
    \A t \in Procs :
        (/\ Latest(t) /\ tx[t].op = "update" /\ ItemsGiven(tx[t].given, tx[t].items)
         /\ \E k \in 1..Len(tx[t].old) : tx[t].old[k].product \notin DOMAIN tx[t].pre.stock
         /\ \A k \in 1..Len(tx[t].items) :
               /\ tx[t].items[k].product \in DOMAIN tx[t].pre.stock
               /\ SumQty(tx[t].items, tx[t].items[k].product)
                     <= tx[t].pre.stock[tx[t].items[k].product])
        => /\ tx[t].res = "ok"
           /\ DOMAIN stock = DOMAIN tx[t].pre.stock
           /\ orders[tx[t].order].items = tx[t].items
           /\ \A prod \in DOMAIN stock :
                 SumQty(tx[t].items, prod) = 0
                 => stock[prod] = tx[t].pre.stock[prod] + SumQty(tx[t].old, prod)

C10_UpdateSurvivesNotify ==
    \A t \in Procs :
        (Latest(t) /\ tx[t].op = "update"
         /\ tx[t].notify \in NotifyOutcomes \ {"sent"})
        => /\ tx[t].res = "ok"
           /\ orders[tx[t].order].buyer = tx[t].buyer
           /\ ItemsGiven(tx[t].given, tx[t].items) => orders[tx[t].order].items = tx[t].items

\* C11 (update rollback on validation error): an updateOrder that failed with
\* the stock error or the missing-product error on a new line item leaves the
\* committed rows as before the call: the order keeps its original items and
\* header, and every stock (the ones restocked earlier in the call included)
\* has its value of before the call.  Checked under SpecSeq.
C11_UpdateRollback ==
    \A t \in Procs :
        (Latest(t) /\ tx[t].op = "update" /\ tx[t].res = "ValueError")
        => /\ stock = tx[t].pre.stock
           /\ orders = tx[t].pre.orders

\* C11 witness: an updateOrder failed for lack of stock on its second new
\* line, after the old items had been restocked and the header changed.
C11_Witness ==
    \E t \in Procs :
        /\ Latest(t) /\ tx[t].op = "update" /\ tx[t].res = "ValueError"
        /\ tx[t].i = 2 /\ Len(tx[t].items) = 2
        /\ tx[t].items[2].product \in DOMAIN stock
        /\ \E k \in 1..Len(tx[t].old) : tx[t].old[k].product \in DOMAIN stock
        /\ tx[t].buyer # tx[t].pre.orders[tx[t].order].buyer

C13_InsufficientIs400 ==
    \A t \in Procs :
        (/\ Latest(t) /\ tx[t].op = "create" /\ tx[t].res = "ValueError"
         /\ tx[t].items[tx[t].i].product \in DOMAIN tx[t].pre.stock)
        => CreateHttpStatus(perform_create(tx[t].res)) = 400

C15_HeaderOnlyUpdate ==
    \A t \in Procs :
        (Latest(t) /\ tx[t].op = "update" /\ tx[t].items = <<>>)
        => /\ stock = tx[t].pre.stock
           /\ DOMAIN orders = DOMAIN tx[t].pre.orders
           /\ \A o \in DOMAIN orders : orders[o].items = tx[t].pre.orders[o].items
           /\ \A o \in DOMAIN orders \ {tx[t].order} : orders[o] = tx[t].pre.orders[o]
           /\ tx[t].res = "ok" => orders[tx[t].order].buyer = tx[t].buyer

\* C15 witness: an updateOrder with an empty list of items changed the buyer
\* of an order that has items.
C15_Witness ==
    \E t \in Procs :
        /\ Latest(t) /\ tx[t].op = "update" /\ tx[t].res = "ok"
        /\ tx[t].given /\ tx[t].items = <<>>
        /\ tx[t].pre.orders[tx[t].order].items # <<>>
        /\ orders[tx[t].order].buyer # tx[t].pre.orders[tx[t].order].buyer

\* C16 (reorder fast-fail): a reorder of an order one item of which asks for
\* more than the current stock of its product, or names a product without
\* Stock row, fails in the pre-check with the validation error and creates
\* nothing: no Order, no OrderItem, no change of any stock.  Checked under
\* SpecSeq.
C16_ReorderFastFail ==
    \A t \in Procs :
        (/\ Latest(t) /\ tx[t].op = "reorder"
         /\ \E k \in 1..Len(tx[t].old) :
               \/ tx[t].old[k].product \notin DOMAIN tx[t].pre.stock
               \/ tx[t].pre.stock[tx[t].old[k].product] < tx[t].old[k].quantity)
        => /\ tx[t].res = "ValueError"
           /\ orders = tx[t].pre.orders
           /\ stock = tx[t].pre.stock

\* C16 witness: a reorder failed on the second item of the original order,
\* whose product has a Stock row that holds less than the item's quantity.
C16_Witness ==
    \E t \in Procs :
        /\ Latest(t) /\ tx[t].op = "reorder" /\ tx[t].res = "ValueError"
        /\ tx[t].i = 2
        /\ tx[t].old[2].product \in DOMAIN stock
        /\ stock[tx[t].old[2].product] < tx[t].old[2].quantity

C18_ApplyDeltaGuard ==
    \A t \in Procs :
        (/\ Latest(t) /\ tx[t].op = "apply"
         /\ LET it == tx[t].items[1] IN tx[t].pre.stock[it.product] - it.quantity < 0)
        => /\ tx[t].res = "ValueError"
           /\ stock = tx[t].pre.stock

\* Quantity of prod in stock and in the OrderItems of the initial database.
InitialInventory(prod) ==
    InitQty + SumQty((CHOOSE o \in InitOrders : TRUE)[1].items, prod)

\* C19 (conservation of inventory): whenever no call is in progress, for
\* every product with a Stock row the Stock quantity plus the quantities of
\* all persisted OrderItems of the product equals what the product had at the
\* start.  Checked under SpecSeq.
C19_Conservation ==
    (\A t \in Procs : AtRest(t))
    => \A prod \in DOMAIN stock :
          stock[prod] + ReservedIn(DOMAIN orders, prod) = InitialInventory(prod)

\* C20 (notification only after commit): every notification handed to the
\* task queue belongs to a call whose transaction has committed: never to a
\* call whose transaction is still open or was rolled back, and a "created"
\* notification names an order that is committed.  Checked under SpecSeq.
C20_NotifyAfterCommit ==
    \A m \in mail :
        /\ \A t \in Procs : tx[t].n = m.n => (AtRest(t) /\ tx[t].res = "ok")
        /\ m.kind = "created" => m.order \in DOMAIN orders

C22_DroppedRestocked ==
    \A t \in Procs :
        (/\ Latest(t) /\ tx[t].op = "update" /\ tx[t].res = "ok"
         /\ ItemsGiven(tx[t].given, tx[t].items))
        => \A prod \in DOMAIN tx[t].pre.stock :
              (SumQty(tx[t].old, prod) > 0 /\ SumQty(tx[t].items, prod) = 0)
              => /\ prod \in DOMAIN stock
                 /\ stock[prod] = tx[t].pre.stock[prod] + SumQty(tx[t].old, prod)

\* C22 witness: a successful updateOrder dropped a product of which the order
\* held two lines, and kept another product.
C22_Witness ==
    \E t \in Procs : \E prod \in DOMAIN stock :
        /\ Latest(t) /\ tx[t].op = "update" /\ tx[t].res = "ok"
        /\ Len(tx[t].old) = 2
        /\ tx[t].old[1].product = prod /\ tx[t].old[2].product = prod
        /\ tx[t].items # <<>> /\ SumQty(tx[t].items, prod) = 0
        /\ stock[prod] = tx[t].pre.stock[prod] + SumQty(tx[t].old, prod)

\* Handlers t and q each are at the write of a Stock row that the open
\* transaction of the other has written.
WaitForEachOther(t, q) ==
    /\ WantsStock(t) \cap DOMAIN tx[q].wStock # {}
    /\ WantsStock(q) \cap DOMAIN tx[t].wStock # {}

C24_OneStockRow ==
    /\ DOMAIN stock2 = {}
    /\ \A t \in Procs : tx[t].res # "MultipleObjectsReturned"

C26_EmailChangeResets ==
    \A t \in Procs :
        (/\ Latest(t) /\ tx[t].op = "profile" /\ tx[t].res = "ok"
         /\ tx[t].email # tx[t].pre.profiles[tx[t].buyer].email)
        => LET p == profiles[tx[t].buyer] IN
           /\ p.email = tx[t].email
           /\ ~p.email_verified
           /\ p.verification_token # 0
           /\ p.verification_token # tx[t].pre.profiles[tx[t].buyer].verification_token
           /\ [kind |-> "verification", to |-> tx[t].email,
               token |-> p.verification_token] \in mail

\* C28 (the verification token is single-use): a verify_email that succeeded
\* leaves its profile verified and without token; a later verify_email with
\* the same token is rejected as an invalid token and changes no profile.
\* Checked under SpecAccount.
C28_TokenSingleUse ==
    \A t \in Procs :
        /\ (Latest(t) /\ tx[t].op = "verify" /\ tx[t].res = "ok")
           => /\ profiles[tx[t].buyer].email_verified
              /\ profiles[tx[t].buyer].verification_token = 0
        /\ \A q \in Procs \ {t} :
              (/\ tx[q].op = "verify" /\ tx[q].res = "ok"
               /\ tx[t].op = "verify" /\ tx[t].n > tx[q].n
               /\ tx[t].cur = tx[q].cur)
              => /\ tx[t].res = "DoesNotExist"
                 /\ Latest(t) => profiles = tx[t].pre.profiles

\* C28 witness: the token that verified a profile was presented again and
\* rejected.
C28_Witness ==
    \E t \in Procs : \E q \in Procs \ {t} :
        /\ tx[q].op = "verify" /\ tx[q].res = "ok"
        /\ Latest(t) /\ tx[t].op = "verify" /\ tx[t].cur = tx[q].cur
        /\ tx[t].res = "DoesNotExist"
        /\ profiles[tx[q].buyer].email_verified

\* The user was due for deactivation at a run of check_email_verification at
\* time at: its profile was unverified and its verification had been sent at
\* least two days before.
DueAt(profile, at) == ~profile.email_verified /\ profile.verification_sent_at <= at - 2

\* C29 as stated (deactivation only hits unverified accounts): every run of
\* check_email_verification deactivates every user that is due, and changes
\* is_active of no user whose profile is verified.  Checked under SpecAccount.
C29_EveryRunDeactivates ==
    \A t \in Procs :
        (Latest(t) /\ tx[t].op = "check")
        => \A u \in DOMAIN tx[t].pre.profiles :
              /\ DueAt(tx[t].pre.profiles[u], tx[t].cur) => ~profiles[u].is_active
              /\ tx[t].pre.profiles[u].email_verified
                 => profiles[u].is_active = tx[t].pre.profiles[u].is_active

\* The part of C29 that holds: a run of check_email_verification in which no
\* reminder enqueue raised deactivates every user that is due; any run changes
\* is_active only of users that are due, so never of a user whose profile is
\* verified; and a profile that verify_email verified stays verified, so no
\* later run deactivates its user.  Checked under SpecAccount.
C29_DeactivationOnlyUnverified ==
    \A t \in Procs :
        /\ (Latest(t) /\ tx[t].op = "check")
           => \A u \in DOMAIN tx[t].pre.profiles :
                 /\ (tx[t].notify = "none" /\ DueAt(tx[t].pre.profiles[u], tx[t].cur))
                    => ~profiles[u].is_active
                 /\ ~DueAt(tx[t].pre.profiles[u], tx[t].cur)
                    => profiles[u].is_active = tx[t].pre.profiles[u].is_active
        /\ (tx[t].op = "verify" /\ tx[t].res = "ok")
           => profiles[tx[t].buyer].email_verified

\* C29 witness: a run deactivated a user that was due, and left active a user
\* whose profile was verified after its verification had been out for two
\* days or more.
C29_Witness ==
    \E t \in Procs : \E u \in DOMAIN profiles : \E v \in DOMAIN profiles :
        /\ Latest(t) /\ tx[t].op = "check" /\ tx[t].notify = "none"
        /\ tx[t].pre.profiles[u].is_active /\ ~profiles[u].is_active
        /\ profiles[v].email_verified /\ profiles[v].is_active
        /\ profiles[v].verification_sent_at <= tx[t].cur - 2
====
